---- MODULE Spec2Model ----
(***************************************************************************)
(* State-machine model of main.py: the OCI cleanup utility.                *)
(*                                                                         *)
(* One main thread runs the command (clean-bucket with --bucket-name or    *)
(* --bucket-file, or clean-logs-analytics); inside the object phase of     *)
(* clean_up_bucket and inside clean_log_analytics_entities a pool of       *)
(* worker threads drains one shared queue.  The cloud services are the     *)
(* environment: every service call returns "ok" or fails, and the model    *)
(* takes every outcome.  History is kept in four variables: log, the       *)
(* service calls of the phase that last issued one; phases, the phases the *)
(* current clean_up_bucket invocation has entered; failures, the resource  *)
(* kinds of which it failed to delete an item; invoked/returned, the       *)
(* invocations of clean_up_bucket and what they returned.                  *)
(***************************************************************************)
EXTENDS Integers, Sequences, FiniteSets, TLC

\* ---------------------------------------------------------------- bounds
MaxItems == 2
MaxPages == 2
MaxWorkers == 2
MaxLines == 2

\* ------------------------------------------------------ program constants
StopAfterAttempt == 4

Items == 1..MaxItems
Workers == 1..MaxWorkers
BucketNames == {"b1", "b2"}
Blank == ""
Lines == BucketNames \cup {Blank}
Kinds == {"object", "par", "upload", "entity"}
Modes == {"bucket-name", "bucket-file", "clean-logs-analytics"}

\* Outcomes of one service call: success, a ServiceError (with the codes the
\* program inspects) or any other exception.
ServiceErrors == {"BucketNotFound", "BucketNotEmpty", "ServiceError"}
Outcomes == {"ok", "ServiceError", "Exception"}
GetBucketOutcomes == {"ok", "BucketNotFound", "ServiceError", "Exception"}
DeleteBucketOutcomes == {"ok", "BucketNotEmpty", "ServiceError", "Exception"}

VARIABLES
  mode,              \* the command line: which command / option was given
  delete_bucket,     \* --delete-bucket/--no-delete-bucket
  num_workers,       \* --workers
  file,              \* the bucket-list file: can it be read, and its lines
  buckets,           \* clean_up_buckets_from_file: the non-blank lines
  bi,                \* index in buckets of the bucket being cleaned
  pc,                \* position of the main thread
  deleted,           \* service state: buckets whose delete_bucket succeeded
  pages,             \* service state: the pages of the listing in progress
                     \* or just returned (until the main thread's next step)
  next_page,         \* lister: continuation token (0 is None)
  all_items,         \* lister: all_objects / all_pars / all_uploads / all_entities
  objects,           \* clean_up_bucket: objects
  pars,              \* clean_up_bucket: pars
  multipart_uploads, \* clean_up_bucket: multipart_uploads
  entities,          \* clean_log_analytics_entities: entities
  queue,             \* object_queue / entity_queue (FIFO)
  unfinished_tasks,  \* Queue.unfinished_tasks (put +1, task_done -1)
  progress_lock,     \* 0 when free, else the worker holding it
  pbar_n,            \* obj_pbar.n / entity_pbar.n
  submitted,         \* number of worker tasks submitted to the executor
  awaited,           \* number of futures whose result() has returned
  wpc,               \* position of each worker
  witem,             \* the item each worker popped (0: none)
  wattempt,          \* tenacity attempt_number of each worker's current call
  wres,              \* how the worker's deleter call ended
  idx,               \* main thread: index in the par / upload loop
  attempt,           \* main thread: tenacity attempt_number of the current call
  bucket_pbar_n,     \* bucket_pbar.n: the overall progress counter
  invoked,           \* bucket names clean_up_bucket was invoked with, in order
  returned,          \* the values those invocations returned, in order
  printed,           \* messages printed by the current invocation
  phases,            \* phases the current invocation has entered, in order
  failures,          \* kinds of which an item's deletion finally failed
  log                \* service calls of the phase that last issued one

vars == <<mode, delete_bucket, num_workers, file, buckets, bi, pc, deleted,
          pages, next_page, all_items, objects, pars, multipart_uploads,
          entities, queue, unfinished_tasks, progress_lock, pbar_n, submitted,
          awaited, wpc, witem, wattempt, wres, idx, attempt,
          bucket_pbar_n, invoked, returned, printed, phases, failures,
          log>>

listerVars == <<pages, next_page, all_items>>
poolVars == <<queue, unfinished_tasks, progress_lock, pbar_n, submitted,
              awaited, wpc, witem, wattempt, wres>>
configVars == <<mode, delete_bucket, num_workers, file>>
listVars == <<objects, pars, multipart_uploads, entities>>
batchVars == <<buckets, bi, bucket_pbar_n, invoked, returned>>
histVars == <<printed, phases, failures, log>>

\* ------------------------------------------------------------- helpers
RECURSIVE SeqsUpTo(_, _)
SeqsUpTo(S, n) ==
  IF n = 0 THEN {<<>>}
  ELSE LET shorter == SeqsUpTo(S, n - 1) IN
       shorter \cup {Append(s, x) : s \in {t \in shorter : Len(t) = n - 1}, x \in S}

RECURSIVE Sum(_)
Sum(s) == IF s = <<>> THEN 0 ELSE Head(s) + Sum(Tail(s))

\* items first..first+n-1 as a list
Run(first, n) == [i \in 1..n |-> first + i - 1]

\* The pages a listing can have: at most MaxPages pages, at most MaxItems
\* items in all, numbered in the order the service lists them.
PageSizes == {s \in SeqsUpTo(0..MaxItems, MaxPages) : Len(s) >= 1 /\ Sum(s) <= MaxItems}
Layout(sizes) == [p \in 1..Len(sizes) |-> Run(Sum(SubSeq(sizes, 1, p - 1)) + 1, sizes[p])]
Layouts == {Layout(s) : s \in PageSizes}

Failed(o) == o # "ok"
Class(o) == IF o = "ok" THEN "ok" ELSE "fail"

\* The log of one phase: the get_bucket or delete_bucket calls (bucket),
\* the page requests (list) and the continuation tokens they were made with
\* (tokens, 0 for none), and per listed item the invocations of its
\* retrying deleter (invoke) and the delete/abort calls made for it (call;
\* a pool worker drops them when it acknowledges the item).
EmptyLog ==
  [phase |-> "none",
   bucket |-> <<>>,
   list |-> <<>>,
   tokens |-> <<>>,
   invoke |-> [i \in Items |-> 0],
   call |-> [i \in Items |-> <<>>]]

\* the log when phase ph issues a call: a new one if ph is just entered
InPhase(l, ph) == IF l.phase = ph THEN l ELSE [EmptyLog EXCEPT !.phase = ph]
Entered(ps, l, ph) == IF l.phase = ph THEN ps ELSE Append(ps, ph)

LogBucket(l, ph, o) == [InPhase(l, ph) EXCEPT !.bucket = Append(@, o)]
LogList(l, k, tok, o) ==
  [InPhase(l, k) EXCEPT !.list = Append(@, Class(o)), !.tokens = Append(@, tok)]
\* one underlying delete/abort call for item i; the first attempt is also
\* the invocation of the retrying deleter
LogCall(l, i, att, o) ==
  [l EXCEPT !.call[i] = Append(@, Class(o)),
            !.invoke[i] = IF att = 1 THEN @ + 1 ELSE @]

\* ------------------------------------------------- retry and the deleters
\* (variant: the stop condition is tested one attempt late)
Retrying_one_attempt_late(n, raised) ==
  IF ~raised THEN "return"
  ELSE IF n > StopAfterAttempt THEN "RetryError"
  ELSE "retry"

\* tenacity @retry(stop=stop_after_attempt(4), wait=wait_fixed(10)): what the
\* wrapper does once attempt number n of the wrapped function has ended.
Retrying(n, raised) ==
  IF ~raised THEN "return"
  ELSE IF n >= StopAfterAttempt THEN "RetryError"
  ELSE "retry"

\* The bodies of the decorated functions, as a function of the outcome of
\* the one service call each makes: do they raise, and what do they return.
delete_object_with_retry(o) ==
  [raised |-> Failed(o), value |-> TRUE, msg |-> "none"]

delete_par_with_retry(o) ==
  [raised |-> FALSE, value |-> ~Failed(o), msg |-> "none"]

abort_multipart_upload_with_retry(o) ==
  [raised |-> FALSE, value |-> ~Failed(o), msg |-> "none"]

delete_log_analytics_entity_with_retry(o) ==
  [raised |-> FALSE, value |-> ~Failed(o), msg |-> "none"]

\* (variant: the except clause reports and re-raises)
delete_bucket_with_retry_reraises(o) ==
  IF o = "ok" THEN [raised |-> FALSE, value |-> TRUE, msg |-> "deleted"]
  ELSE IF o \in ServiceErrors
       THEN [raised |-> TRUE, value |-> FALSE,
             msg |-> IF o = "BucketNotEmpty" THEN "not_empty" ELSE "delete_error"]
       ELSE [raised |-> TRUE, value |-> FALSE, msg |-> "none"]

delete_bucket_with_retry(o) ==
  IF o = "ok" THEN [raised |-> FALSE, value |-> TRUE, msg |-> "deleted"]
  ELSE IF o \in ServiceErrors
       THEN [raised |-> FALSE, value |-> FALSE,
             msg |-> IF o = "BucketNotEmpty" THEN "not_empty" ELSE "delete_error"]
       ELSE [raised |-> TRUE, value |-> FALSE, msg |-> "none"]

\* (variant: only the BucketNotFound code is taken for a missing bucket)
verify_bucket_exists_other_codes_raise(o) ==
  IF o = "ok" THEN [raised |-> FALSE, value |-> TRUE, msg |-> "none"]
  ELSE IF o = "BucketNotFound"
       THEN [raised |-> FALSE, value |-> FALSE, msg |-> "does_not_exist"]
       ELSE [raised |-> TRUE, value |-> FALSE, msg |-> "none"]

\* (variant: the except clause reports the error and raises it again)
verify_bucket_exists_reraises(o) ==
  IF o = "ok" THEN [raised |-> FALSE, value |-> TRUE, msg |-> "none"]
  ELSE IF o \in ServiceErrors
       THEN [raised |-> TRUE, value |-> FALSE,
             msg |-> IF o = "BucketNotFound" THEN "does_not_exist" ELSE "verify_error"]
       ELSE [raised |-> TRUE, value |-> FALSE, msg |-> "none"]

\* (variant: the except clause reports the error and returns True)
verify_bucket_exists_error_is_true(o) ==
  IF o = "ok" THEN [raised |-> FALSE, value |-> TRUE, msg |-> "none"]
  ELSE IF o \in ServiceErrors
       THEN [raised |-> FALSE, value |-> TRUE,
             msg |-> IF o = "BucketNotFound" THEN "does_not_exist" ELSE "verify_error"]
       ELSE [raised |-> TRUE, value |-> FALSE, msg |-> "none"]

verify_bucket_exists(o) ==
  IF o = "ok" THEN [raised |-> FALSE, value |-> TRUE, msg |-> "none"]
  ELSE IF o \in ServiceErrors
       THEN [raised |-> FALSE, value |-> FALSE,
             msg |-> IF o = "BucketNotFound" THEN "does_not_exist" ELSE "verify_error"]
       ELSE [raised |-> TRUE, value |-> FALSE, msg |-> "none"]

\* ------------------------------------------------------------------ Init
\* The bucket files: none, or lines of names and blanks.  The names are
\* interchangeable, so "b1" is the first name a file mentions.
FirstNameFirst(l) ==
  \A k \in 1..Len(l) : l[k] = "b2" => \E j \in 1..(k - 1) : l[j] = "b1"

Files ==
  {[found |-> FALSE, lines |-> <<>>]} \cup
  {[found |-> TRUE, lines |-> l] :
     l \in {s \in SeqsUpTo(Lines, MaxLines) : FirstNameFirst(s)}}

NoWorkers == [w \in Workers |-> 0]

\* The command line and the bucket file are the inputs.  The batch command
\* is explored with one worker; the interleavings of the pool are explored
\* under --bucket-name and under clean-logs-analytics.
Init ==
  /\ mode \in Modes
  /\ delete_bucket \in (IF mode = "clean-logs-analytics" THEN {TRUE} ELSE BOOLEAN)
  /\ num_workers \in (IF mode = "bucket-file" THEN {1} ELSE 1..MaxWorkers)
  /\ file \in (IF mode = "bucket-file" THEN Files ELSE {[found |-> FALSE, lines |-> <<>>]})
  /\ buckets = <<>>
  /\ bi = 0
  /\ pc = "start"
  /\ deleted = {}
  /\ pages = <<>>
  /\ next_page = 0
  /\ all_items = <<>>
  /\ objects = <<>>
  /\ pars = <<>>
  /\ multipart_uploads = <<>>
  /\ entities = <<>>
  /\ queue = <<>>
  /\ unfinished_tasks = 0
  /\ progress_lock = 0
  /\ pbar_n = 0
  /\ submitted = 0
  /\ awaited = 0
  /\ wpc = [w \in Workers |-> "idle"]
  /\ witem = NoWorkers
  /\ wattempt = NoWorkers
  /\ wres = [w \in Workers |-> "none"]
  /\ idx = 0
  /\ attempt = 0
  /\ bucket_pbar_n = 0
  /\ invoked = <<>>
  /\ returned = <<>>
  /\ printed = {}
  /\ phases = <<>>
  /\ failures = {}
  /\ log = EmptyLog

\* ------------------------------------------------------- the batch driver
bucket_name == IF mode = "bucket-file" THEN buckets[bi] ELSE "b1"

\* clean_bucket (the clean-bucket command): dispatch on the option given
clean_bucket ==
  /\ pc = "start"
  /\ mode \in {"bucket-name", "bucket-file"}
  /\ IF mode = "bucket-file"
     THEN /\ pc' = "read_file"
          /\ UNCHANGED invoked
     ELSE /\ pc' = "verify"
          /\ invoked' = Append(invoked, "b1")
  /\ UNCHANGED <<configVars, buckets, bi, bucket_pbar_n, returned, deleted,
                 listerVars, listVars, poolVars, idx, attempt, histVars>>

\* clean_up_buckets_from_file up to the loop: read the file, keep the
\* non-blank lines; a missing file or an empty list returns at once
NonBlank(line) == line # Blank

clean_up_buckets_from_file ==
  /\ pc = "read_file"
  /\ IF ~file.found
     THEN /\ pc' = "done"
          /\ UNCHANGED buckets
     ELSE /\ buckets' = SelectSeq(file.lines, NonBlank)
          /\ pc' = IF buckets' = <<>> THEN "done" ELSE "loop"
  /\ UNCHANGED <<configVars, bi, bucket_pbar_n, invoked, returned, deleted,
                 listerVars, listVars, poolVars, idx, attempt, histVars>>

\* for bucket_name in buckets: the next call of clean_up_bucket
for_bucket_name ==
  /\ pc = "loop"
  /\ bi < Len(buckets)
  /\ bi' = bi + 1
  /\ invoked' = Append(invoked, buckets[bi + 1])
  /\ pc' = "verify"
  /\ printed' = {}
  /\ phases' = <<>>
  /\ failures' = {}
  /\ log' = EmptyLog
  /\ UNCHANGED <<configVars, buckets, bucket_pbar_n, returned, deleted,
                 listerVars, listVars, poolVars, idx, attempt>>

\* the loop is exhausted: clean_up_buckets_from_file returns
batch_done ==
  /\ pc = "loop"
  /\ bi >= Len(buckets)
  /\ pc' = "done"
  /\ UNCHANGED <<configVars, batchVars, deleted, listerVars, listVars,
                 poolVars, idx, attempt, histVars>>

\* (variant: the early return at a failed verification leaves the bar alone)
Return_without_update_on_failure(v) ==
  /\ returned' = Append(returned, v)
  /\ bucket_pbar_n' = IF mode = "bucket-file" /\ v THEN bucket_pbar_n + 1
                      ELSE bucket_pbar_n
  /\ pc' = IF mode = "bucket-file" THEN "loop" ELSE "done"
  /\ objects' = <<>>
  /\ pars' = <<>>
  /\ multipart_uploads' = <<>>

\* clean_up_bucket returns v: bucket_pbar.update(1) when a bar was supplied;
\* its locals are gone
Return(v) ==
  /\ returned' = Append(returned, v)
  /\ bucket_pbar_n' = IF mode = "bucket-file" THEN bucket_pbar_n + 1 ELSE bucket_pbar_n
  /\ pc' = IF mode = "bucket-file" THEN "loop" ELSE "done"
  /\ objects' = <<>>
  /\ pars' = <<>>
  /\ multipart_uploads' = <<>>

\* clean_up_bucket, lines 212-216: verify the bucket exists
verify ==
  /\ pc = "verify"
  /\ \E o \in GetBucketOutcomes :
       /\ bucket_name \in deleted => o # "ok"
       /\ LET r == verify_bucket_exists(o) IN
          /\ log' = LogBucket(log, "verify", o)
          /\ phases' = Entered(phases, log, "verify")
          /\ printed' = IF r.msg = "none" THEN printed ELSE printed \cup {r.msg}
          /\ IF r.raised
             THEN /\ pc' = "crashed"
                  /\ UNCHANGED <<returned, bucket_pbar_n, objects, pars,
                                 multipart_uploads>>
             ELSE IF r.value
             THEN /\ pc' = "list_objects"
                  /\ UNCHANGED <<returned, bucket_pbar_n, objects, pars,
                                 multipart_uploads>>
             ELSE Return(FALSE)
  /\ UNCHANGED <<configVars, buckets, bi, invoked, deleted, listerVars,
                 entities, poolVars, idx, attempt, failures>>


\* ------------------------------------------------------------ the listers
\* The service's answer to a list call with continuation token tok (0: no
\* token) over the pages lay: the page, and the opc-next-page header
Response(lay, tok) ==
  [items |-> lay[tok + 1],
   next |-> IF tok + 1 < Len(lay) THEN tok + 1 ELSE 0]

\* (variant: the except clause returns what earlier pages gave)
Lister_keeps_earlier_pages(lay, tok, acc, o) ==
  IF Failed(o)
  THEN [done |-> TRUE, result |-> acc, next_page |-> 0, all_items |-> <<>>]
  ELSE LET response == Response(lay, tok)
           all == IF response.items # <<>> THEN acc \o response.items ELSE acc
       IN IF response.next = 0
          THEN [done |-> TRUE, result |-> all, next_page |-> 0, all_items |-> <<>>]
          ELSE [done |-> FALSE, result |-> <<>>, next_page |-> response.next,
                all_items |-> all]

\* (variant: all_items is assigned the page, not extended by it)
Lister_keeps_the_last_page(lay, tok, acc, o) ==
  IF Failed(o)
  THEN [done |-> TRUE, result |-> <<>>, next_page |-> 0, all_items |-> <<>>]
  ELSE LET response == Response(lay, tok)
           all == IF response.items # <<>> THEN response.items ELSE acc
       IN IF response.next = 0
          THEN [done |-> TRUE, result |-> all, next_page |-> 0, all_items |-> <<>>]
          ELSE [done |-> FALSE, result |-> <<>>, next_page |-> response.next,
                all_items |-> all]

\* One turn of the while loop of list_object_versions (and of the three
\* listers written like it), with its except clause: o is the outcome of
\* the page request made with token tok, acc the items gathered so far.
Lister(lay, tok, acc, o) ==
  IF Failed(o)
  THEN [done |-> TRUE, result |-> <<>>, next_page |-> 0, all_items |-> <<>>]
  ELSE LET response == Response(lay, tok)
           all == IF response.items # <<>> THEN acc \o response.items ELSE acc
       IN IF response.next = 0
          THEN [done |-> TRUE, result |-> all, next_page |-> 0, all_items |-> <<>>]
          ELSE [done |-> FALSE, result |-> <<>>, next_page |-> response.next,
                all_items |-> all]

\* the pages the service holds for the listing: fixed by its first request,
\* the one made without a token (left open when that request fails: no page
\* comes back)
ListingPages(o) ==
  IF next_page # 0 THEN {pages}
  ELSE IF Failed(o) THEN {<<<<>>>>}
  ELSE Layouts

ListerGoesOn(lay, r) ==
  /\ pages' = lay
  /\ next_page' = r.next_page
  /\ all_items' = r.all_items

ListerReturns(lay, o) ==
  /\ pages' = IF Failed(o) THEN <<>> ELSE lay
  /\ next_page' = 0
  /\ all_items' = <<>>

\* the main thread goes on after a listing: its pages are of no more interest
ListingOver ==
  /\ pages' = <<>>
  /\ UNCHANGED <<next_page, all_items>>

\* lines 225-236 and 438-449: the queue is created and filled, the lock and
\* the progress bar are created
FillQueue(items) ==
  /\ queue' = items
  /\ unfinished_tasks' = Len(items)
  /\ progress_lock' = 0
  /\ pbar_n' = 0
  /\ pc' = "submit"
  /\ UNCHANGED <<submitted, awaited, wpc, witem, wattempt, wres>>

\* clean_up_bucket, lines 218-236
list_object_versions ==
  /\ pc = "list_objects"
  /\ \E o \in Outcomes : \E lay \in ListingPages(o) :
       LET r == Lister(lay, next_page, all_items, o) IN
       /\ log' = LogList(log, "object", next_page, o)
       /\ phases' = Entered(phases, log, "object")
       /\ IF ~r.done
          THEN /\ ListerGoesOn(lay, r)
               /\ UNCHANGED <<pc, objects, poolVars>>
          ELSE /\ ListerReturns(lay, o)
               /\ objects' = r.result
               /\ IF r.result = <<>>
                  THEN /\ pc' = "list_pars"
                       /\ UNCHANGED poolVars
                  ELSE FillQueue(r.result)
  /\ UNCHANGED <<configVars, batchVars, deleted, pars, multipart_uploads,
                 entities, idx, attempt, printed, failures>>

\* clean_up_bucket, lines 261-263 and 281-282
list_preauthenticated_requests ==
  /\ pc = "list_pars"
  /\ \E o \in Outcomes : \E lay \in ListingPages(o) :
       LET r == Lister(lay, next_page, all_items, o) IN
       /\ log' = LogList(log, "par", next_page, o)
       /\ phases' = Entered(phases, log, "par")
       /\ IF ~r.done
          THEN /\ ListerGoesOn(lay, r)
               /\ UNCHANGED <<pc, pars, idx>>
          ELSE /\ ListerReturns(lay, o)
               /\ pars' = r.result
               /\ idx' = IF r.result = <<>> THEN 0 ELSE 1
               /\ pc' = IF r.result = <<>> THEN "list_uploads" ELSE "delete_pars"
  /\ UNCHANGED <<configVars, batchVars, deleted, objects, multipart_uploads,
                 entities, poolVars, attempt, printed, failures>>

\* clean_up_bucket, lines 284-286 and 305-306
list_multipart_uploads ==
  /\ pc = "list_uploads"
  /\ \E o \in Outcomes : \E lay \in ListingPages(o) :
       LET r == Lister(lay, next_page, all_items, o) IN
       /\ log' = LogList(log, "upload", next_page, o)
       /\ phases' = Entered(phases, log, "upload")
       /\ IF ~r.done
          THEN /\ ListerGoesOn(lay, r)
               /\ UNCHANGED <<pc, multipart_uploads, idx>>
          ELSE /\ ListerReturns(lay, o)
               /\ multipart_uploads' = r.result
               /\ idx' = IF r.result = <<>> THEN 0 ELSE 1
               /\ pc' = IF r.result = <<>> THEN "delete_bucket" ELSE "abort_uploads"
  /\ UNCHANGED <<configVars, batchVars, deleted, objects, pars, entities,
                 poolVars, attempt, printed, failures>>

\* --------------------------------------------------------- the worker pool
PoolKind == IF mode = "clean-logs-analytics" THEN "entity" ELSE "object"

\* (variant: the tasks are submitted and not waited for)
submit_and_go_on ==
  /\ pc = "submit"
  /\ submitted < num_workers
  /\ submitted' = submitted + 1
  /\ wpc' = [wpc EXCEPT ![submitted + 1] = "get"]
  /\ pc' = IF submitted + 1 = num_workers THEN "list_pars" ELSE "submit"
  /\ UNCHANGED <<configVars, batchVars, deleted, listerVars, listVars, queue,
                 unfinished_tasks, progress_lock, pbar_n, awaited, witem,
                 wattempt, wres, idx, attempt, histVars>>

\* lines 239-252 (452-464): executor.submit of one worker task
submit ==
  /\ pc = "submit"
  /\ submitted < num_workers
  /\ submitted' = submitted + 1
  /\ wpc' = [wpc EXCEPT ![submitted + 1] = "get"]
  /\ pc' = IF submitted + 1 = num_workers THEN "await" ELSE "submit"
  /\ ListingOver
  /\ UNCHANGED <<configVars, batchVars, deleted, listVars, queue,
                 unfinished_tasks, progress_lock, pbar_n, awaited, witem,
                 wattempt, wres, idx, attempt, histVars>>

\* (variant: the futures are gone through without waiting for their tasks)
future_result_not_waiting ==
  /\ pc = "await"
  /\ awaited < num_workers
  /\ awaited' = awaited + 1
  /\ pc' = IF awaited + 1 = num_workers THEN "join" ELSE "await"
  /\ UNCHANGED <<configVars, batchVars, deleted, listerVars, listVars, queue,
                 unfinished_tasks, progress_lock, pbar_n, submitted, wpc, witem,
                 wattempt, wres, idx, attempt, histVars>>

\* lines 255-256 (467-468): future.result() of the next future
future_result ==
  /\ pc = "await"
  /\ awaited < num_workers
  /\ wpc[awaited + 1] = "done"
  /\ awaited' = awaited + 1
  /\ pc' = IF awaited + 1 = num_workers THEN "join" ELSE "await"
  /\ UNCHANGED <<configVars, batchVars, deleted, listerVars, listVars, queue,
                 unfinished_tasks, progress_lock, pbar_n, submitted, wpc, witem,
                 wattempt, wres, idx, attempt, histVars>>

\* line 259 (471): queue.join(), then the executor and the progress bar are
\* left; the entity cleanup returns, the bucket cleanup goes on
queue_join ==
  /\ pc = "join"
  /\ unfinished_tasks = 0
  /\ pc' = IF PoolKind = "entity" THEN "done" ELSE "list_pars"
  /\ submitted' = 0
  /\ awaited' = 0
  /\ wpc' = [w \in Workers |-> "idle"]
  /\ pbar_n' = 0
  /\ UNCHANGED <<configVars, batchVars, deleted, listerVars, listVars, queue,
                 unfinished_tasks, progress_lock, witem, wattempt, wres, idx,
                 attempt, histVars>>

\* the deleter a worker of this pool calls
PoolDeleter(o) ==
  IF PoolKind = "object" THEN delete_object_with_retry(o)
  ELSE delete_log_analytics_entity_with_retry(o)

\* (variant: the head of the queue is read and left in the queue)
Pop_leaves_the_item(q) == [item |-> Head(q), rest |-> q]

\* Queue.get_nowait() on a non-empty queue: the head is removed and returned
Pop(q) == [item |-> Head(q), rest |-> Tail(q)]

\* (variant: queue.get(), which waits for an item)
get_waiting(w) ==
  /\ wpc[w] = "get"
  /\ queue # <<>>
  /\ witem' = [witem EXCEPT ![w] = Pop(queue).item]
  /\ queue' = Pop(queue).rest
  /\ wpc' = [wpc EXCEPT ![w] = "call"]
  /\ UNCHANGED <<configVars, batchVars, pc, deleted, listerVars, listVars,
                 unfinished_tasks, progress_lock, pbar_n, submitted, awaited,
                 wattempt, wres, idx, attempt, histVars>>

\* line 177 (478): queue.get_nowait(), an item or Empty
get_nowait(w) ==
  /\ wpc[w] = "get"
  /\ IF queue # <<>>
     THEN /\ witem' = [witem EXCEPT ![w] = Pop(queue).item]
          /\ queue' = Pop(queue).rest
          /\ wpc' = [wpc EXCEPT ![w] = "call"]
     ELSE /\ wpc' = [wpc EXCEPT ![w] = "done"]
          /\ UNCHANGED <<witem, queue>>
  /\ UNCHANGED <<configVars, batchVars, pc, deleted, listerVars, listVars,
                 unfinished_tasks, progress_lock, pbar_n, submitted, awaited,
                 wattempt, wres, idx, attempt, histVars>>

\* (variant: the except clause leaves the worker's loop)
AfterDeleter_failure_ends_the_worker(t) == IF t = "RetryError" THEN "done" ELSE "lock"

\* lines 189-196 (488-495): where the worker goes when its deleter call has
\* returned ("return") or raised ("RetryError"): to the progress update
\* under the lock, in the try body and in the except clause alike
AfterDeleter(t) == "lock"

\* lines 181-188 and 193 (482-487 and 492): one attempt of the deleter
worker_delete(w) ==
  /\ wpc[w] = "call"
  /\ \E o \in Outcomes :
       LET n == wattempt[w] + 1
           r == PoolDeleter(o)
           t == Retrying(n, r.raised)
       IN /\ log' = LogCall(log, witem[w], n, o)
          /\ failures' = IF t = "RetryError" \/ (t = "return" /\ ~r.value)
                          THEN failures \cup {PoolKind} ELSE failures
          /\ IF t = "retry"
             THEN /\ wattempt' = [wattempt EXCEPT ![w] = n]
                  /\ UNCHANGED <<wpc, wres>>
             ELSE /\ wattempt' = [wattempt EXCEPT ![w] = 0]
                  /\ wres' = [wres EXCEPT ![w] = IF t = "return" THEN "returned" ELSE "raised"]
                  /\ wpc' = [wpc EXCEPT ![w] = AfterDeleter(t)]
  /\ UNCHANGED <<configVars, batchVars, pc, deleted, listerVars, listVars,
                 queue, unfinished_tasks, progress_lock, pbar_n, submitted,
                 awaited, witem, idx, attempt, printed, phases>>

\* (variant: the progress bar is updated without taking the lock)
lock_acquire_unguarded(w) ==
  /\ wpc[w] = "lock"
  /\ progress_lock' = w
  /\ wpc' = [wpc EXCEPT ![w] = "update"]
  /\ UNCHANGED <<configVars, batchVars, pc, deleted, listerVars, listVars,
                 queue, unfinished_tasks, pbar_n, submitted, awaited, witem,
                 wattempt, wres, idx, attempt, histVars>>

\* lines 189 and 195 (488 and 494): with progress_lock, entered
lock_acquire(w) ==
  /\ wpc[w] = "lock"
  /\ progress_lock = 0
  /\ progress_lock' = w
  /\ wpc' = [wpc EXCEPT ![w] = "update"]
  /\ UNCHANGED <<configVars, batchVars, pc, deleted, listerVars, listVars,
                 queue, unfinished_tasks, pbar_n, submitted, awaited, witem,
                 wattempt, wres, idx, attempt, histVars>>

\* lines 190-192 and 196 (489-491 and 495): obj_pbar.update(1), and the
\* with block is left
pbar_update(w) ==
  /\ wpc[w] = "update"
  /\ pbar_n' = pbar_n + 1
  /\ progress_lock' = 0
  /\ wpc' = [wpc EXCEPT ![w] = "task_done"]
  /\ UNCHANGED <<configVars, batchVars, pc, deleted, listerVars, listVars,
                 queue, unfinished_tasks, submitted, awaited, witem, wattempt,
                 wres, idx, attempt, histVars>>

\* lines 197-198 (496-497): finally: queue.task_done(), and loop; the item
\* is acknowledged, and the log keeps of it only that its deleter was invoked
task_done(w) ==
  /\ wpc[w] = "task_done"
  /\ log' = [log EXCEPT !.call[witem[w]] = <<>>]
  /\ unfinished_tasks' = unfinished_tasks - 1
  /\ witem' = [witem EXCEPT ![w] = 0]
  /\ wres' = [wres EXCEPT ![w] = "none"]
  /\ wpc' = [wpc EXCEPT ![w] = "get"]
  /\ UNCHANGED <<configVars, batchVars, pc, deleted, listerVars, listVars,
                 queue, progress_lock, pbar_n, submitted, awaited, wattempt,
                 idx, attempt, printed, phases, failures>>


\* ------------------------------------- the sequential phases and the bucket
\* lines 267-280: one attempt of delete_par_with_retry for pars[idx]; when
\* the call has returned or raised, par_pbar.update(1) and the next par
delete_pars ==
  /\ pc = "delete_pars"
  /\ \E o \in Outcomes :
       LET n == attempt + 1
           r == delete_par_with_retry(o)
           t == Retrying(n, r.raised)
       IN /\ log' = LogCall(log, pars[idx], n, o)
          /\ failures' = IF t = "RetryError" \/ (t = "return" /\ ~r.value)
                          THEN failures \cup {"par"} ELSE failures
          /\ IF t = "retry"
             THEN /\ attempt' = n
                  /\ UNCHANGED <<idx, pc>>
             ELSE /\ attempt' = 0
                  /\ idx' = IF idx < Len(pars) THEN idx + 1 ELSE 0
                  /\ pc' = IF idx < Len(pars) THEN "delete_pars" ELSE "list_uploads"
  /\ ListingOver
  /\ UNCHANGED <<configVars, batchVars, deleted, listVars, poolVars, printed,
                 phases>>

\* lines 290-304: the same for abort_multipart_upload_with_retry
abort_uploads ==
  /\ pc = "abort_uploads"
  /\ \E o \in Outcomes :
       LET n == attempt + 1
           r == abort_multipart_upload_with_retry(o)
           t == Retrying(n, r.raised)
       IN /\ log' = LogCall(log, multipart_uploads[idx], n, o)
          /\ failures' = IF t = "RetryError" \/ (t = "return" /\ ~r.value)
                          THEN failures \cup {"upload"} ELSE failures
          /\ IF t = "retry"
             THEN /\ attempt' = n
                  /\ UNCHANGED <<idx, pc>>
             ELSE /\ attempt' = 0
                  /\ idx' = IF idx < Len(multipart_uploads) THEN idx + 1 ELSE 0
                  /\ pc' = IF idx < Len(multipart_uploads) THEN "abort_uploads"
                           ELSE "delete_bucket"
  /\ ListingOver
  /\ UNCHANGED <<configVars, batchVars, deleted, listVars, poolVars, printed,
                 phases>>

\* (variant: the flag is not looked at)
DeletionRequested_always == TRUE

\* line 310: if delete_bucket
DeletionRequested == delete_bucket

\* lines 309-311 and 315-318: one attempt of delete_bucket_with_retry; a
\* RetryError is caught nowhere
delete_bucket_attempt ==
  /\ pc = "delete_bucket"
  /\ DeletionRequested
  /\ \E o \in DeleteBucketOutcomes :
       LET n == attempt + 1
           r == delete_bucket_with_retry(o)
           t == Retrying(n, r.raised)
       IN /\ log' = LogBucket(log, "bucket", o)
          /\ phases' = Entered(phases, log, "bucket")
          /\ printed' = IF r.msg = "none" THEN printed ELSE printed \cup {r.msg}
          /\ deleted' = IF o = "ok" THEN deleted \cup {bucket_name} ELSE deleted
          /\ IF t = "retry"
             THEN /\ attempt' = n
                  /\ UNCHANGED <<pc, returned, bucket_pbar_n, objects, pars,
                                 multipart_uploads>>
             ELSE IF t = "RetryError"
             THEN /\ attempt' = 0
                  /\ pc' = "crashed"
                  /\ UNCHANGED <<returned, bucket_pbar_n, objects, pars,
                                 multipart_uploads>>
             ELSE /\ attempt' = 0
                  /\ Return(r.value)
  /\ ListingOver
  /\ UNCHANGED <<configVars, buckets, bi, invoked, entities, poolVars, idx,
                 failures>>

\* lines 309-310 and 312-318: --no-delete-bucket
skip_bucket_deletion ==
  /\ pc = "delete_bucket"
  /\ ~DeletionRequested
  /\ printed' = printed \cup {"skip_delete"}
  /\ Return(TRUE)
  /\ ListingOver
  /\ UNCHANGED <<configVars, buckets, bi, invoked, deleted, entities,
                 poolVars, idx, attempt, phases, failures, log>>

\* ------------------------------------------- the clean-logs-analytics command
\* lines 507-521: get_namespace, then clean_log_analytics_entities
clean_logs_analytics ==
  /\ pc = "start"
  /\ mode = "clean-logs-analytics"
  /\ \E o \in Outcomes :
       pc' = IF Failed(o) THEN "usage_error" ELSE "list_entities"
  /\ UNCHANGED <<configVars, batchVars, deleted, listerVars, listVars,
                 poolVars, idx, attempt, histVars>>

\* clean_log_analytics_entities, lines 428-449
list_log_analytics_entities ==
  /\ pc = "list_entities"
  /\ \E o \in Outcomes : \E lay \in ListingPages(o) :
       LET r == Lister(lay, next_page, all_items, o) IN
       /\ log' = LogList(log, "entity", next_page, o)
       /\ phases' = Entered(phases, log, "entity")
       /\ IF ~r.done
          THEN /\ ListerGoesOn(lay, r)
               /\ UNCHANGED <<pc, entities, poolVars>>
          ELSE /\ ListerReturns(lay, o)
               /\ entities' = r.result
               /\ IF r.result = <<>>
                  THEN /\ pc' = "done"
                       /\ UNCHANGED poolVars
                  ELSE FillQueue(r.result)
  /\ UNCHANGED <<configVars, batchVars, deleted, objects, pars,
                 multipart_uploads, idx, attempt, printed, failures>>

\* ------------------------------------------------------------------ Next
Worker(w) ==
  \/ get_nowait(w)
  \/ worker_delete(w)
  \/ lock_acquire(w)
  \/ pbar_update(w)
  \/ task_done(w)

Next ==
  \/ clean_bucket
  \/ clean_up_buckets_from_file
  \/ for_bucket_name
  \/ batch_done
  \/ verify
  \/ list_object_versions
  \/ submit
  \/ future_result
  \/ queue_join
  \/ list_preauthenticated_requests
  \/ delete_pars
  \/ list_multipart_uploads
  \/ abort_uploads
  \/ delete_bucket_attempt
  \/ skip_bucket_deletion
  \/ clean_logs_analytics
  \/ list_log_analytics_entities
  \/ \E w \in Workers : Worker(w)

Spec == Init /\ [][Next]_vars

\* The threads are scheduled and every service call returns, with a result
\* or an error: a step that can be taken is eventually taken.
FairSpec == Spec /\ WF_vars(Next)


\* ============================================================ the claims
Range(s) == {s[k] : k \in 1..Len(s)}
Last(s) == s[Len(s)]
AllFail(s) == \A k \in 1..Len(s) : s[k] = "fail"
\* the fails of s are all before its last element
OkOnlyLast(s) == \A k \in 1..(Len(s) - 1) : s[k] = "fail"

\* the current invocation of clean_up_bucket has returned a value
HasReturned == invoked # <<>> /\ Len(returned) = Len(invoked)

PoolActive == pc \in {"submit", "await", "join"}
PoolItems == IF PoolKind = "entity" THEN entities ELSE objects
InQueue(i) == Cardinality({k \in 1..Len(queue) : queue[k] = i})
Holders(i) == Cardinality({w \in Workers : witem[w] = i})

\* C1: while a pool runs, every listed descriptor is in exactly one place:
\* once in the queue and not yet handed to the deleter, or held by exactly
\* one worker, or acknowledged with its retrying deleter invoked exactly
\* once; no deleter is ever invoked twice for a descriptor, and when the
\* workers have all returned there were exactly N invocations, one each.
\* This holds for the object pool and for the entity pool.
C1_EachDescriptorOnce ==
  PoolActive =>
    /\ \A i \in Items :
         /\ InQueue(i) + Holders(i) <= 1
         /\ log.invoke[i] <= 1
         /\ InQueue(i) = 1 => log.invoke[i] = 0
         /\ i \in Range(PoolItems) =>
              (InQueue(i) + Holders(i) = 0 => log.invoke[i] = 1)
         /\ i \notin Range(PoolItems) =>
              InQueue(i) + Holders(i) + log.invoke[i] = 0
    /\ pc = "join" =>
         /\ queue = <<>>
         /\ \A i \in Range(PoolItems) : log.invoke[i] = 1 /\ Holders(i) = 0

\* two workers of the object pool hold different descriptors at once, each
\* handed to delete_object_with_retry
C1_Witness ==
  /\ PoolActive
  /\ PoolKind = "object"
  /\ \E w1, w2 \in Workers :
       /\ w1 # w2
       /\ witem[w1] # 0
       /\ witem[w2] # 0
       /\ log.invoke[witem[w1]] = 1
       /\ log.invoke[witem[w2]] = 1

\* C2: for the object version a worker holds, delete_object is called at most
\* 4 times and no call follows a successful one; the call reports success
\* exactly when its last delete_object call succeeded (so after 3 failures
\* and a success there is no 5th call), and raises exactly after 4 failures.
C2_AtMostFourAttempts ==
  (PoolActive /\ PoolKind = "object") =>
    \A w \in Workers :
      witem[w] # 0 =>
        LET c == log.call[witem[w]] IN
        /\ Len(c) <= 4
        /\ OkOnlyLast(c)
        /\ wpc[w] = "call" => AllFail(c) /\ Len(c) < 4 /\ wres[w] = "none"
        /\ wpc[w] # "call" => wres[w] \in {"returned", "raised"}
        /\ wres[w] = "returned" => c # <<>> /\ Last(c) = "ok"
        /\ wres[w] = "raised" => Len(c) = 4 /\ AllFail(c)

\* three failed calls, then the 4th succeeds: success is reported
C2_Witness ==
  /\ PoolKind = "object"
  /\ \E w \in Workers :
       /\ witem[w] # 0
       /\ log.call[witem[w]] = <<"fail", "fail", "fail", "ok">>
       /\ wres[w] = "returned"

\* C3, as claimed: a pre-auth link, a multipart upload or a log-analytics
\* entity whose delete/abort call failed is re-attempted, and is given up
\* as failed only after its 4th failed call.
C3_FailedOnlyAfterFourthFailure ==
  /\ (log.phase \in {"par", "upload"} /\ attempt = 0) =>
       \A i \in Items :
         (log.call[i] # <<>> /\ Last(log.call[i]) = "fail") =>
           Len(log.call[i]) = StopAfterAttempt
  /\ (log.phase = "entity") =>
       \A w \in Workers :
         (witem[w] # 0 /\ wpc[w] # "call" /\ Last(log.call[witem[w]]) = "fail") =>
           Len(log.call[witem[w]]) = StopAfterAttempt

\* C4: once verify_bucket_exists has reported the bucket missing, the
\* invocation has returned False and verification was its only phase: it
\* issued no list call and no delete, abort or delete-bucket call.
VerifyReportedMissing == printed \cap {"does_not_exist", "verify_error"} # {}

C4_ShortCircuit ==
  VerifyReportedMissing =>
    /\ HasReturned
    /\ Last(returned) = FALSE
    /\ pc \in {"loop", "done"}
    /\ phases = <<"verify">>
    /\ log.phase = "verify"
    /\ Len(log.bucket) = 1
    /\ log.list = <<>>
    /\ \A i \in Items : log.invoke[i] = 0 /\ log.call[i] = <<>>

C4_Witness ==
  /\ "does_not_exist" \in printed
  /\ log.bucket = <<"BucketNotFound">>
  /\ returned = <<FALSE>>

\* C5: when the deletion of an object version has failed for good, the pool
\* still hands every listed object version to the deleter, and the
\* invocation can only end having entered the pre-auth phase, the multipart
\* phase and, when bucket deletion is enabled, the bucket-deletion phase.
PhasesOfFullRun ==
  IF delete_bucket THEN <<"verify", "object", "par", "upload", "bucket">>
  ELSE <<"verify", "object", "par", "upload">>

C5_FailureDoesNotStopTheRun ==
  "object" \in failures =>
    /\ (log.phase = "object" /\ pc \in {"join", "list_pars"}) =>
         \A i \in Range(objects) : log.invoke[i] = 1
    /\ pc \in {"loop", "done", "crashed"} => phases = PhasesOfFullRun

\* a run that failed to delete one of two object versions has ended with
\* all five phases entered
C5_Witness ==
  /\ "object" \in failures
  /\ pc = "done"
  /\ delete_bucket
  /\ HasReturned
  /\ phases = <<"verify", "object", "par", "upload", "bucket">>


\* C6: the phases of one clean_up_bucket run are entered in the order verify,
\* objects, pre-auth links, multipart uploads, bucket deletion; a pre-auth
\* list or delete call is issued only when no object-deletion task is queued
\* or in flight and no worker is running; the first multipart call is issued
\* only when every listed pre-auth link has had its delete call return; the
\* first delete-bucket call only when every listed upload has had its abort
\* call return.
IsPrefix(s, t) == Len(s) <= Len(t) /\ SubSeq(t, 1, Len(s)) = s
PoolDrained ==
  /\ queue = <<>>
  /\ unfinished_tasks = 0
  /\ \A w \in Workers : witem[w] = 0 /\ wpc[w] = "idle"
AllInvoked(items) == \A i \in Range(items) : log.invoke[i] = 1

C6_Step ==
  /\ mode # "clean-logs-analytics" =>
       IsPrefix(phases', <<"verify", "object", "par", "upload", "bucket">>)
  /\ (log'.phase = "par" /\ log' # log) => PoolDrained
  /\ (log'.phase = "par" /\ log.phase # "par") =>
       /\ log.phase = "object"
       /\ objects # <<>> => AllInvoked(objects)
  /\ (log'.phase = "upload" /\ log.phase # "upload") =>
       /\ log.phase = "par"
       /\ AllInvoked(pars)
       /\ attempt = 0
       /\ PoolDrained
  /\ (log'.phase = "bucket" /\ log.phase # "bucket") =>
       /\ log.phase = "upload"
       /\ AllInvoked(multipart_uploads)
       /\ attempt = 0
       /\ PoolDrained

C6_PhasesSequential == [][C6_Step]_vars

\* a run with object versions, pre-auth links and uploads has reached its
\* delete-bucket call
C6_Witness ==
  /\ log.phase = "bucket"
  /\ num_workers = 2
  /\ Len(objects) = 2
  /\ pars # <<>>
  /\ multipart_uploads # <<>>
  /\ phases = <<"verify", "object", "par", "upload", "bucket">>

\* C7, as claimed: when clean_up_buckets_from_file has ended, clean_up_bucket
\* was invoked once per non-blank line of the list, in listed order; a bucket
\* whose verification failed does not keep the later ones from being cleaned.
BatchEnded == mode = "bucket-file" /\ file.found /\ pc \in {"done", "crashed"}

C7_OncePerLine ==
  BatchEnded => invoked = SelectSeq(file.lines, NonBlank)

\* C8, as claimed: whatever service call fails, and however, clean_up_bucket
\* returns normally: no exception leaves it, and the batch goes on to the
\* remaining buckets.
C8_NoFailureAbortsTheBatch ==
  /\ pc # "crashed"
  /\ (pc = "done" /\ mode = "bucket-file" /\ file.found) =>
       Len(returned) = Len(SelectSeq(file.lines, NonBlank))

ListedOf(k) ==
  CASE k = "object" -> objects
    [] k = "par" -> pars
    [] k = "upload" -> multipart_uploads
    [] k = "entity" -> entities

AfterPhase(k) ==
  CASE k = "object" -> {"list_pars"}
    [] k = "par" -> {"list_uploads"}
    [] k = "upload" -> {"delete_bucket", "loop", "done"}
    [] k = "entity" -> {"done"}

C10_FailedListingSkipsThePhase ==
  (log.phase \in Kinds /\ "fail" \in Range(log.list)) =>
    /\ Last(log.list) = "fail"
    /\ \A k \in 1..(Len(log.list) - 1) : log.list[k] = "ok"
    /\ all_items = <<>>
    /\ next_page = 0
    /\ pc \in {"loop", "done"} \/ ListedOf(log.phase) = <<>>
    /\ \A i \in Items : log.invoke[i] = 0 /\ log.call[i] = <<>>
    /\ pc \in AfterPhase(log.phase)

\* the second page request of the object listing failed: the run is at the
\* pre-auth phase with no object to delete
C10_Witness ==
  /\ log.phase = "object"
  /\ log.list = <<"ok", "fail">>
  /\ objects = <<>>
  /\ pc = "list_pars"

\* C11: while no page request of a listing has failed, the first request
\* was made with no token and each following one with the token the previous
\* response returned, there is one request per page so far, and the items
\* gathered are those of the pages requested, in order; the lister stops at
\* the first response with no token, and what it returns is then the items
\* of all pages, for each of the four listers.
RECURSIVE Flatten(_)
Flatten(pg) == IF pg = <<>> THEN <<>> ELSE Head(pg) \o Flatten(Tail(pg))

C11_ListerFollowsThePages ==
  (log.phase \in Kinds /\ pages # <<>> /\ "fail" \notin Range(log.list)) =>
    LET n == Len(log.list) IN
    /\ n >= 1
    /\ n <= Len(pages)
    /\ Len(log.tokens) = n
    /\ log.tokens[1] = 0
    /\ \A k \in 2..n :
         /\ log.tokens[k] # 0
         /\ log.tokens[k] = Response(pages, log.tokens[k - 1]).next
    /\ next_page = Response(pages, log.tokens[n]).next
    /\ next_page # 0 => all_items = Flatten(SubSeq(pages, 1, n))
    /\ next_page = 0 =>
         /\ n = Len(pages)
         /\ ListedOf(log.phase) = Flatten(pages)

\* the pre-auth listing has returned the items of its two pages, one on each
C11_Witness ==
  /\ log.phase = "par"
  /\ pages = <<<<1>>, <<2>>>>
  /\ log.list = <<"ok", "ok">>
  /\ log.tokens = <<0, 1>>
  /\ pars = <<1, 2>>
  /\ pc = "delete_pars"

\* C12: control leaves the worker-pool block only from queue.join(), when
\* every one of the N workers has returned, the queue is empty and it has no
\* outstanding task: every item put on it has been acknowledged. While the
\* pool runs, the outstanding tasks are the queued items and the items held
\* by workers; outside the pool no worker holds an item.
Held == Cardinality({w \in Workers : witem[w] # 0})
Acknowledged ==
  Cardinality({i \in Range(PoolItems) :
                 log.invoke[i] = 1 /\ InQueue(i) + Holders(i) = 0})

C12_State ==
  /\ PoolActive =>
       /\ unfinished_tasks = Len(queue) + Held
       /\ Acknowledged = Len(PoolItems) - unfinished_tasks
  /\ ~PoolActive =>
       /\ Held = 0
       /\ \A w \in Workers : wpc[w] = "idle"

C12_Step ==
  (PoolActive /\ ~PoolActive') =>
    /\ pc = "join"
    /\ submitted = num_workers
    /\ awaited = num_workers
    /\ \A w \in 1..num_workers : wpc[w] = "done"
    /\ queue = <<>>
    /\ unfinished_tasks = 0
    /\ Acknowledged = Len(PoolItems)

C12_PoolBarrier == []C12_State /\ [][C12_Step]_vars

\* the object pool of two workers has been left with both object versions
\* acknowledged, and the pre-auth listing has begun
C12_Witness ==
  /\ log.phase = "par"
  /\ num_workers = 2
  /\ Len(objects) = 2
  /\ unfinished_tasks = 0
  /\ Held = 0

\* C13, as claimed: when clean_up_buckets_from_file has gone through the
\* whole list, the number of clean_up_bucket invocations that returned
\* success and the number that returned failure are each among the counts
\* the driver holds.
Count(s, v) == Cardinality({k \in 1..Len(s) : s[k] = v})

\* the numbers clean_up_buckets_from_file holds when its loop is over:
\* len(buckets) and the position of the overall progress bar
DriverCounts == {Len(buckets), bucket_pbar_n}

C13_TallyOfOutcomes ==
  (mode = "bucket-file" /\ file.found /\ buckets # <<>> /\ pc = "done") =>
    /\ Count(returned, TRUE) \in DriverCounts
    /\ Count(returned, FALSE) \in DriverCounts

\* C14: a clean_up_bucket run on a bucket that an earlier run of the batch
\* has deleted makes one get_bucket call and nothing else: no list call, no
\* delete or abort call, no delete-bucket call; when get_bucket answers
\* "bucket not found", the run prints that, returns False normally, and the
\* batch goes on: no exception ends it.
AlreadyDeleted ==
  /\ mode = "bucket-file"
  /\ bi >= 1
  /\ buckets[bi] \in deleted
  /\ "deleted" \notin printed

C14_SecondRunStopsAtVerification ==
  AlreadyDeleted =>
    /\ IsPrefix(phases, <<"verify">>)
    /\ Len(log.bucket) <= 1
    /\ log.list = <<>>
    /\ \A i \in Items : log.invoke[i] = 0 /\ log.call[i] = <<>>
    /\ log.bucket = <<"BucketNotFound">> =>
         /\ HasReturned
         /\ Last(returned) = FALSE
         /\ "does_not_exist" \in printed
         /\ pc \in {"loop", "done"}

\* the bucket is listed twice: the first run deleted it, the second has
\* returned False at verification and the batch has ended
C14_Witness ==
  /\ invoked = <<"b1", "b1">>
  /\ returned = <<TRUE, FALSE>>
  /\ deleted = {"b1"}
  /\ log.bucket = <<"BucketNotFound">>
  /\ pc = "done"

\* C15: with delete_bucket false no delete-bucket call is ever issued, and a
\* run whose verification succeeded ends by returning True after the
\* object, pre-auth and multipart phases, whatever failed in them; with
\* delete_bucket true a run whose verification succeeded can only end having
\* entered the bucket-deletion phase once, as its last phase, after those
\* three, and its delete-bucket calls are the attempts of one
\* delete_bucket_with_retry invocation.
Verified == "verify" \in Range(phases) /\ Len(phases) >= 2
RunEnded == pc \in {"loop", "done", "crashed"}

C15_FlagControlsBucketDeletion ==
  /\ ~delete_bucket =>
       /\ log.phase # "bucket"
       /\ log.bucket # <<>> => log.phase = "verify"
       /\ "bucket" \notin Range(phases)
       /\ deleted = {}
       /\ pc # "crashed" \/ ~Verified
       /\ (Verified /\ RunEnded) =>
            /\ HasReturned
            /\ Last(returned) = TRUE
            /\ "skip_delete" \in printed
            /\ phases = <<"verify", "object", "par", "upload">>
  /\ delete_bucket =>
       /\ "skip_delete" \notin printed
       /\ (Verified /\ RunEnded) =>
            phases = <<"verify", "object", "par", "upload", "bucket">>
       /\ log.phase = "bucket" =>
            /\ Last(phases) = "bucket"
            /\ Len(log.bucket) <= StopAfterAttempt
            /\ \A k \in 1..(Len(log.bucket) - 1) : log.bucket[k] = "Exception"

\* --no-delete-bucket: a run in which an object version and a pre-auth link
\* could not be deleted has returned True
C15_Witness ==
  /\ ~delete_bucket
  /\ {"object", "par"} \subseteq failures
  /\ HasReturned
  /\ Last(returned) = TRUE
  /\ phases = <<"verify", "object", "par", "upload">>
  /\ pc = "done"

\* C16: in the worker pool the progress bar is updated only by the worker
\* that holds progress_lock, so by at most one worker at a time; it has
\* advanced once for every task whose deleter call has ended, returned or
\* raised, and whose update is done, so it never exceeds the number of
\* items queued, and it equals that number when the workers have all
\* returned.
Updating == {w \in Workers : wpc[w] = "update"}
\* the tasks whose deleter call has ended and whose progress update is done
Counted ==
  Cardinality({i \in Range(PoolItems) : log.invoke[i] = 1 /\ Holders(i) = 0})
  + Cardinality({w \in Workers : wpc[w] = "task_done"})

C16_Step ==
  /\ pbar_n' # pbar_n =>
       \/ /\ pbar_n' = pbar_n + 1
          /\ \E w \in Workers :
               /\ progress_lock = w
               /\ wpc[w] = "update"
               /\ wpc'[w] = "task_done"
               /\ wres[w] \in {"returned", "raised"}
       \/ pbar_n' = 0 /\ ~PoolActive'
  /\ \A w \in Workers :
       (wpc[w] # "task_done" /\ wpc'[w] = "task_done") => pbar_n' = pbar_n + 1

C16_State ==
  PoolActive =>
    /\ Cardinality(Updating) <= 1
    /\ \A w \in Workers : wpc[w] = "update" <=> progress_lock = w
    /\ pbar_n = Counted
    /\ pbar_n <= Len(PoolItems)
    /\ pc = "join" => pbar_n = Len(PoolItems)

C16_ProgressUnderTheLock == []C16_State /\ [][C16_Step]_vars

\* two workers, two object versions, one deleted and one given up after
\* four failures: the workers have returned and the bar stands at 2
C16_Witness ==
  /\ pc = "join"
  /\ PoolKind = "object"
  /\ num_workers = 2
  /\ pbar_n = 2
  /\ "object" \in failures
  /\ \E i \in Range(objects) : log.invoke[i] = 1

\* C17: for a queue of N >= 1 items and W >= 1 workers, exactly W worker
\* tasks are started; a worker's pop never waits: it takes the head of a
\* non-empty queue, and returns the first time it finds the queue empty,
\* which is the only way it returns; and when every step that can be taken
\* is eventually taken, the pool is eventually left, with all W workers
\* returned and the queue empty, also when W > N and when deletions fail
\* all their attempts.
Started == {w \in Workers : wpc[w] # "idle"}
AllExited ==
  /\ pc = "join"
  /\ \A w \in 1..num_workers : wpc[w] = "done"
  /\ queue = <<>>
  /\ unfinished_tasks = 0

C17_State ==
  PoolActive =>
    /\ Len(PoolItems) >= 1
    /\ Started = 1..submitted
    /\ submitted <= num_workers
    /\ pc \in {"await", "join"} => submitted = num_workers

C17_Step ==
  \A w \in Workers :
    /\ (wpc[w] = "get" /\ wpc'[w] # "get") =>
         IF queue = <<>>
         THEN wpc'[w] = "done" /\ queue' = <<>> /\ witem'[w] = 0
         ELSE /\ wpc'[w] = "call"
              /\ witem'[w] = Head(queue)
              /\ queue' = Tail(queue)
    /\ (wpc[w] # "done" /\ wpc'[w] = "done") => wpc[w] = "get" /\ queue = <<>>
    /\ (wpc[w] = "done" /\ wpc'[w] # "done") => ~PoolActive'

C17_PoolTerminates ==
  /\ []C17_State
  /\ [][C17_Step]_vars
  /\ PoolActive ~> AllExited
  /\ AllExited ~> ~PoolActive

\* two workers and one object version, whose deletion failed four times:
\* the pool has been left
C17_Witness ==
  /\ log.phase = "object"
  /\ pc = "list_pars"
  /\ num_workers = 2
  /\ Len(objects) = 1
  /\ log.call[objects[1]] = <<>>
  /\ log.invoke[objects[1]] = 1
  /\ "object" \in failures

\* C18: verify_bucket_exists returns False, without raising, for every
\* service-error code; and when get_bucket has been answered by a service
\* error, of whatever code, clean_up_bucket has returned False with that
\* call as its only service call: no list call and no delete, abort or
\* delete-bucket call; only the message printed depends on the code.
C18_AnyServiceErrorIsNotFound ==
  /\ \A o \in ServiceErrors :
       /\ ~verify_bucket_exists(o).raised
       /\ verify_bucket_exists(o).value = FALSE
  /\ (log.phase = "verify" /\ log.bucket # <<>> /\ Last(log.bucket) \in ServiceErrors) =>
       /\ HasReturned
       /\ Last(returned) = FALSE
       /\ pc \in {"loop", "done"}
       /\ phases = <<"verify">>
       /\ Len(log.bucket) = 1
       /\ log.list = <<>>
       /\ \A i \in Items : log.invoke[i] = 0 /\ log.call[i] = <<>>
       /\ printed = {IF Last(log.bucket) = "BucketNotFound"
                     THEN "does_not_exist" ELSE "verify_error"}

\* get_bucket was answered by a service error that is not BucketNotFound
\* (e.g. not authorized): the run has returned False
C18_Witness ==
  /\ log.phase = "verify"
  /\ log.bucket = <<"ServiceError">>
  /\ printed = {"verify_error"}
  /\ returned = <<FALSE>>
  /\ pc = "done"

\* C19: in a batch, which supplies the overall progress bar, every return of
\* clean_up_bucket, at the failed verification or at the end of a full run,
\* advances the bar by exactly one, and nothing else moves it: it stands at
\* the number of returned invocations, and at the number of buckets of the
\* list when the loop is over; a single-bucket run, which supplies no bar,
\* leaves it alone.
C19_State ==
  /\ mode = "bucket-file" => bucket_pbar_n = Len(returned)
  /\ mode # "bucket-file" => bucket_pbar_n = 0
  /\ (mode = "bucket-file" /\ pc = "done" /\ buckets # <<>>) =>
       /\ bi = Len(buckets)
       /\ bucket_pbar_n = Len(buckets)

C19_Step ==
  /\ returned' # returned =>
       /\ Len(returned') = Len(returned) + 1
       /\ mode = "bucket-file" => bucket_pbar_n' = bucket_pbar_n + 1
  /\ bucket_pbar_n' # bucket_pbar_n => returned' # returned

C19_BarCountsReturns == []C19_State /\ [][C19_Step]_vars

\* a batch of two buckets, the first stopped at verification, the second
\* cleaned and deleted: the loop is over and the bar stands at 2
C19_Witness ==
  /\ mode = "bucket-file"
  /\ pc = "done"
  /\ Len(buckets) = 2
  /\ returned = <<FALSE, TRUE>>
  /\ phases = <<"verify", "object", "par", "upload", "bucket">>
  /\ bucket_pbar_n = 2

====
